---- MODULE Spec2Model ----
(***************************************************************************)
(* The graph-refresh decision controller of the graph page (GraphPage):    *)
(* node derivation from the URL path, node change detection, the refetch   *)
(* decision of componentDidUpdate and the component lifecycle around the   *)
(* asynchronous GraphDataSource.                                            *)
(***************************************************************************)
EXTENDS Integers, Sequences, FiniteSets, TLC

VARIABLES
  pc,             \* lifecycle position: "constructed", "mounted", "unmounted"
  params,         \* props.match.params, the URL path variables
  props,          \* this.props, the snapshot of the last render
  store,          \* the redux store fields the component writes: graph.node, tourState.activeTour
  boot,           \* history: URL node and stored node seen by the constructor
  focusSelector,  \* this.focusSelector
  listeners,      \* per data source event, how often handleGraphDataSourceUpdate is registered
  inflight,       \* fetches submitted to the data source and not yet completed
  isError,        \* graphDataSource.isError: the last fetch to complete failed
  lastRequest,    \* the parameters of the last fetchGraphData call
  pass,           \* history: what the last lifecycle step observed and did
  call            \* a single application of a pure function (SpecNode)

vars ==
  <<pc, params, props, store, boot, focusSelector, listeners, inflight, isError, lastRequest,
    pass, call>>

\* Bound on the fetches the environment lets be outstanding at once.
MaxInFlight == 2

-----------------------------------------------------------------------------
(* JavaScript values *)

\* the value undefined of a string-typed variable (distinct from the string 'undefined')
undefined == "<undefined>"
null == "<null>"
\* the value undefined of a node-typed variable; ref is the object identity
undefinedNode == [ref |-> "undefined"]
\* the value undefined of a number-typed variable is <<>>, a number n is <<n>>
undefinedTime == <<>>

Truthy(s) == s # undefined /\ s # ""

UNKNOWN == "unknown"
NodeType_APP == "app"
NodeType_SERVICE == "service"
NodeType_WORKLOAD == "workload"
RESPONSE_TIME_95TH_PERCENTILE == "responseTimeP95"

-----------------------------------------------------------------------------
(* NodeSelector *)

\* getNodeParamsFromProps with the version carried through for every node type
getNodeParamsFromProps_versionKept(matchParams, newRef) ==
  LET app == matchParams.app
      appOk == Truthy(app) /\ app # UNKNOWN /\ app # "undefined"
      namespace == matchParams.namespace
      namespaceOk == Truthy(namespace) /\ namespace # UNKNOWN /\ namespace # "undefined"
      service == matchParams.service
      serviceOk == Truthy(service) /\ service # UNKNOWN /\ service # "undefined"
      workload == matchParams.workload
      workloadOk == Truthy(workload) /\ workload # UNKNOWN /\ workload # "undefined"
  IN  IF ~appOk /\ ~namespaceOk /\ ~serviceOk /\ ~workloadOk
      THEN undefinedNode
      ELSE [ref |-> newRef,
            app |-> app,
            namespace |-> [name |-> namespace],
            nodeType |-> IF appOk \/ workloadOk
                         THEN (IF appOk THEN NodeType_APP ELSE NodeType_WORKLOAD)
                         ELSE NodeType_SERVICE,
            service |-> service,
            version |-> matchParams.version,
            workload |-> workload]

\* getNodeParamsFromProps without the test for the literal 'undefined' on the workload
getNodeParamsFromProps_undefinedWorkload(matchParams, newRef) ==
  LET app == matchParams.app
      appOk == Truthy(app) /\ app # UNKNOWN /\ app # "undefined"
      namespace == matchParams.namespace
      namespaceOk == Truthy(namespace) /\ namespace # UNKNOWN /\ namespace # "undefined"
      service == matchParams.service
      serviceOk == Truthy(service) /\ service # UNKNOWN /\ service # "undefined"
      workload == matchParams.workload
      workloadOk == Truthy(workload) /\ workload # UNKNOWN
  IN  IF ~appOk /\ ~namespaceOk /\ ~serviceOk /\ ~workloadOk
      THEN undefinedNode
      ELSE [ref |-> newRef,
            app |-> app,
            namespace |-> [name |-> namespace],
            nodeType |-> IF appOk \/ workloadOk
                         THEN (IF appOk THEN NodeType_APP ELSE NodeType_WORKLOAD)
                         ELSE NodeType_SERVICE,
            service |-> service,
            version |-> IF appOk \/ workloadOk THEN matchParams.version ELSE "",
            workload |-> workload]

\* newRef is the identity of the object literal the function returns
getNodeParamsFromProps(matchParams, newRef) ==
  LET app == matchParams.app
      appOk == Truthy(app) /\ app # UNKNOWN /\ app # "undefined"
      namespace == matchParams.namespace
      namespaceOk == Truthy(namespace) /\ namespace # UNKNOWN /\ namespace # "undefined"
      service == matchParams.service
      serviceOk == Truthy(service) /\ service # UNKNOWN /\ service # "undefined"
      workload == matchParams.workload
      workloadOk == Truthy(workload) /\ workload # UNKNOWN /\ workload # "undefined"
  IN  IF ~appOk /\ ~namespaceOk /\ ~serviceOk /\ ~workloadOk
      THEN undefinedNode
      ELSE LET nodeType == IF appOk \/ workloadOk
                           THEN (IF appOk THEN NodeType_APP ELSE NodeType_WORKLOAD)
                           ELSE NodeType_SERVICE
               version == IF appOk \/ workloadOk THEN matchParams.version ELSE ""
           IN  [ref |-> newRef,
                app |-> app,
                namespace |-> [name |-> namespace],
                nodeType |-> nodeType,
                service |-> service,
                version |-> version,
                workload |-> workload]

\* isNodeChanged without the comparison of the workload
isNodeChanged_noWorkload(prevNode, node) ==
  IF prevNode.ref = node.ref
  THEN FALSE
  ELSE IF (prevNode # undefinedNode /\ node = undefinedNode)
          \/ (prevNode = undefinedNode /\ node # undefinedNode)
  THEN TRUE
  ELSE IF prevNode # undefinedNode /\ node # undefinedNode
  THEN \/ prevNode.app # node.app
       \/ prevNode.service # node.service
       \/ prevNode.version # node.version
       \/ prevNode.nodeType # node.nodeType
  ELSE FALSE

isNodeChanged(prevNode, node) ==
  IF prevNode.ref = node.ref
  THEN FALSE
  ELSE IF (prevNode # undefinedNode /\ node = undefinedNode)
          \/ (prevNode = undefinedNode /\ node # undefinedNode)
  THEN TRUE
  ELSE IF prevNode # undefinedNode /\ node # undefinedNode
  THEN LET nodeAppHasChanged == prevNode.app # node.app
           nodeServiceHasChanged == prevNode.service # node.service
           nodeVersionHasChanged == prevNode.version # node.version
           nodeTypeHasChanged == prevNode.nodeType # node.nodeType
           nodeWorkloadHasChanged == prevNode.workload # node.workload
       IN  nodeAppHasChanged \/ nodeServiceHasChanged \/ nodeVersionHasChanged
             \/ nodeWorkloadHasChanged \/ nodeTypeHasChanged
  ELSE FALSE

-----------------------------------------------------------------------------
(* GraphParamsTracker *)

\* utils/Common arrayEquals: equality of the two collections as sets under the
\* comparator, a function on the pairs of their elements
arrayEquals(a1, a2, comparator) ==
  /\ \A i \in DOMAIN a1 : \E j \in DOMAIN a2 : comparator[<<a1[i], a2[j]>>]
  /\ \A j \in DOMAIN a2 : \E i \in DOMAIN a1 : comparator[<<a1[i], a2[j]>>]

Elements(a) == {a[i] : i \in DOMAIN a}

sameName(n1, n2) == n1.name = n2.name

\* activeNamespacesChanged comparing the two arrays element by element
activeNamespacesChanged_ordered(prev, curr) ==
  prev.activeNamespaces # curr.activeNamespaces

activeNamespacesChanged(prev, curr) ==
  ~arrayEquals(prev.activeNamespaces, curr.activeNamespaces,
               [n \in Elements(prev.activeNamespaces) \X Elements(curr.activeNamespaces)
                  |-> sameName(n[1], n[2])])

\* shouldRefetch with || for && in the refresh tick rule
shouldRefetch_tickOrLive(prev, curr) ==
  \/ activeNamespacesChanged(prev, curr)
  \/ prev.duration # curr.duration
  \/ (prev.edgeLabelMode # curr.edgeLabelMode /\ curr.edgeLabelMode = RESPONSE_TIME_95TH_PERCENTILE)
  \/ prev.graphType # curr.graphType
  \/ (prev.lastRefreshAt # curr.lastRefreshAt \/ curr.replayQueryTime = 0)
  \/ prev.replayQueryTime # curr.replayQueryTime
  \/ prev.showServiceNodes # curr.showServiceNodes
  \/ prev.showSecurity # curr.showSecurity
  \/ prev.showUnusedNodes # curr.showUnusedNodes
  \/ isNodeChanged(prev.node, curr.node)

\* shouldRefetch honouring refresh ticks in replay mode too
shouldRefetch_tickInReplay(prev, curr) ==
  \/ activeNamespacesChanged(prev, curr)
  \/ prev.duration # curr.duration
  \/ (prev.edgeLabelMode # curr.edgeLabelMode /\ curr.edgeLabelMode = RESPONSE_TIME_95TH_PERCENTILE)
  \/ prev.graphType # curr.graphType
  \/ prev.lastRefreshAt # curr.lastRefreshAt
  \/ prev.replayQueryTime # curr.replayQueryTime
  \/ prev.showServiceNodes # curr.showServiceNodes
  \/ prev.showSecurity # curr.showSecurity
  \/ prev.showUnusedNodes # curr.showUnusedNodes
  \/ isNodeChanged(prev.node, curr.node)

\* shouldRefetch with a fetch on every change of the edge label mode
shouldRefetch_anyLabelMode(prev, curr) ==
  \/ activeNamespacesChanged(prev, curr)
  \/ prev.duration # curr.duration
  \/ prev.edgeLabelMode # curr.edgeLabelMode
  \/ prev.graphType # curr.graphType
  \/ (prev.lastRefreshAt # curr.lastRefreshAt /\ curr.replayQueryTime = 0)
  \/ prev.replayQueryTime # curr.replayQueryTime
  \/ prev.showServiceNodes # curr.showServiceNodes
  \/ prev.showSecurity # curr.showSecurity
  \/ prev.showUnusedNodes # curr.showUnusedNodes
  \/ isNodeChanged(prev.node, curr.node)

\* shouldRefetch without the showSecurity rule
shouldRefetch_noSecurity(prev, curr) ==
  \/ activeNamespacesChanged(prev, curr)
  \/ prev.duration # curr.duration
  \/ (prev.edgeLabelMode # curr.edgeLabelMode /\ curr.edgeLabelMode = RESPONSE_TIME_95TH_PERCENTILE)
  \/ prev.graphType # curr.graphType
  \/ (prev.lastRefreshAt # curr.lastRefreshAt /\ curr.replayQueryTime = 0)
  \/ prev.replayQueryTime # curr.replayQueryTime
  \/ prev.showServiceNodes # curr.showServiceNodes
  \/ prev.showUnusedNodes # curr.showUnusedNodes
  \/ isNodeChanged(prev.node, curr.node)

\* shouldRefetch with a fetch on a change of the layout as well
shouldRefetch_layout(prev, curr) ==
  \/ activeNamespacesChanged(prev, curr)
  \/ prev.duration # curr.duration
  \/ (prev.edgeLabelMode # curr.edgeLabelMode /\ curr.edgeLabelMode = RESPONSE_TIME_95TH_PERCENTILE)
  \/ prev.graphType # curr.graphType
  \/ (prev.lastRefreshAt # curr.lastRefreshAt /\ curr.replayQueryTime = 0)
  \/ prev.replayQueryTime # curr.replayQueryTime
  \/ prev.showServiceNodes # curr.showServiceNodes
  \/ prev.showSecurity # curr.showSecurity
  \/ prev.showUnusedNodes # curr.showUnusedNodes
  \/ prev.layout.name # curr.layout.name
  \/ isNodeChanged(prev.node, curr.node)

\* the condition without the comparison of the durations
shouldRefetch_noDuration(prev, curr) ==
  \/ activeNamespacesChanged(prev, curr)
  \/ (prev.edgeLabelMode # curr.edgeLabelMode /\ curr.edgeLabelMode = RESPONSE_TIME_95TH_PERCENTILE)
  \/ prev.graphType # curr.graphType
  \/ (prev.lastRefreshAt # curr.lastRefreshAt /\ curr.replayQueryTime = 0)
  \/ prev.replayQueryTime # curr.replayQueryTime
  \/ prev.showServiceNodes # curr.showServiceNodes
  \/ prev.showSecurity # curr.showSecurity
  \/ prev.showUnusedNodes # curr.showUnusedNodes
  \/ isNodeChanged(prev.node, curr.node)

\* the condition that guards loadGraphDataFromBackend in componentDidUpdate
shouldRefetch(prev, curr) ==
  \/ activeNamespacesChanged(prev, curr)
  \/ prev.duration # curr.duration
  \/ (prev.edgeLabelMode # curr.edgeLabelMode
        /\ curr.edgeLabelMode = RESPONSE_TIME_95TH_PERCENTILE)
  \/ prev.graphType # curr.graphType
  \/ (prev.lastRefreshAt # curr.lastRefreshAt /\ curr.replayQueryTime = 0)
  \/ prev.replayQueryTime # curr.replayQueryTime
  \/ prev.showServiceNodes # curr.showServiceNodes
  \/ prev.showSecurity # curr.showSecurity
  \/ prev.showUnusedNodes # curr.showUnusedNodes
  \/ isNodeChanged(prev.node, curr.node)

\* componentDidUpdate that fetches only while the data source reports no error
componentDidUpdate_haltedAfterError(prev, curr, focus) ==
  [graphChanged |-> activeNamespacesChanged(prev, curr),
   load |-> shouldRefetch(prev, curr) /\ ~isError,
   unsetFocusSelector |-> Truthy(focus),
   cleanError |-> prev.layout.name # curr.layout.name \/ activeNamespacesChanged(prev, curr),
   endTour |-> curr.showLegend /\ Truthy(curr.activeTour)]

\* componentDidUpdate that calls cleanError whenever it fetches
componentDidUpdate_cleanErrorOnLoad(prev, curr, focus) ==
  [graphChanged |-> activeNamespacesChanged(prev, curr),
   load |-> shouldRefetch(prev, curr),
   unsetFocusSelector |-> Truthy(focus),
   cleanError |-> prev.layout.name # curr.layout.name \/ shouldRefetch(prev, curr),
   endTour |-> curr.showLegend /\ Truthy(curr.activeTour)]

\* componentDidUpdate that calls unsetFocusSelector in every pass
componentDidUpdate_unsetAlways(prev, curr, focus) ==
  [graphChanged |-> activeNamespacesChanged(prev, curr),
   load |-> shouldRefetch(prev, curr),
   unsetFocusSelector |-> TRUE,
   cleanError |-> prev.layout.name # curr.layout.name \/ activeNamespacesChanged(prev, curr),
   endTour |-> curr.showLegend /\ Truthy(curr.activeTour)]

\* the effects of one componentDidUpdate(prev) with this.props = curr
componentDidUpdate(prev, curr, focus) ==
  [graphChanged |-> activeNamespacesChanged(prev, curr),
   load |-> shouldRefetch(prev, curr),
   unsetFocusSelector |-> Truthy(focus),
   cleanError |-> prev.layout.name # curr.layout.name \/ activeNamespacesChanged(prev, curr),
   endTour |-> curr.showLegend /\ Truthy(curr.activeTour)]

\* loadGraphDataFromBackend scoped to the active namespaces whatever the node
loadGraphDataFromBackend_activeNamespaces(p) ==
  [namespaces |-> p.activeNamespaces,
   duration |-> p.duration,
   graphType |-> p.graphType,
   injectServiceNodes |-> p.showServiceNodes,
   edgeLabelMode |-> p.edgeLabelMode,
   showSecurity |-> p.showSecurity,
   showUnusedNodes |-> p.showUnusedNodes,
   node |-> p.node,
   queryTime |-> IF p.replayQueryTime # 0 THEN <<p.replayQueryTime>> ELSE undefinedTime]

\* loadGraphDataFromBackend handing replayQueryTime on as it is, 0 included
loadGraphDataFromBackend_queryTimeZero(p) ==
  [namespaces |-> IF p.node # undefinedNode THEN <<p.node.namespace>> ELSE p.activeNamespaces,
   duration |-> p.duration,
   graphType |-> p.graphType,
   injectServiceNodes |-> p.showServiceNodes,
   edgeLabelMode |-> p.edgeLabelMode,
   showSecurity |-> p.showSecurity,
   showUnusedNodes |-> p.showUnusedNodes,
   node |-> p.node,
   queryTime |-> <<p.replayQueryTime>>]

\* the FetchParams loadGraphDataFromBackend hands to fetchGraphData
loadGraphDataFromBackend(p) ==
  LET queryTime == IF p.replayQueryTime # 0 THEN <<p.replayQueryTime>> ELSE undefinedTime
  IN  [namespaces |-> IF p.node # undefinedNode THEN <<p.node.namespace>> ELSE p.activeNamespaces,
       duration |-> p.duration,
       graphType |-> p.graphType,
       injectServiceNodes |-> p.showServiceNodes,
       edgeLabelMode |-> p.edgeLabelMode,
       showSecurity |-> p.showSecurity,
       showUnusedNodes |-> p.showUnusedNodes,
       node |-> p.node,
       queryTime |-> queryTime]

-----------------------------------------------------------------------------
(* GraphDataSource, as the controller drives and observes it *)

DataSourceEvents == {"loadStart", "fetchError", "fetchSuccess", "emptyNamespaces"}

\* the event fetchGraphData emits before it returns
fetchEvent(req) == IF Len(req.namespaces) = 0 THEN "emptyNamespaces" ELSE "loadStart"

\* the number of backend fetches fetchGraphData starts
fetchStarts(req) == IF Len(req.namespaces) = 0 THEN 0 ELSE 1

noRequest == [namespaces |-> <<>>, node |-> undefinedNode, none |-> TRUE]

\* emit(event) reaches handleGraphDataSourceUpdate
Registered(event) == listeners[event] > 0

-----------------------------------------------------------------------------
(* Inputs *)

bookinfo == [name |-> "bookinfo"]
default == [name |-> "default"]

PathParams(app, namespace, service, version, workload) ==
  [app |-> app, namespace |-> namespace, service |-> service, version |-> version,
   workload |-> workload]

\* URL path variables the page is opened with
BootParams ==
  { PathParams(undefined, undefined, undefined, undefined, undefined),
    PathParams(undefined, "bookinfo", undefined, undefined, "reviews"),
    PathParams(undefined, "default", undefined, undefined, "reviews"),
    PathParams("unknown", "bookinfo", "ratings", "v1", "undefined") }

\* node objects held by the store
reviewsWorkload ==
  getNodeParamsFromProps(PathParams(undefined, "bookinfo", undefined, undefined, "reviews"), "n1")
reviewsWorkloadDefault ==
  getNodeParamsFromProps(PathParams(undefined, "default", undefined, undefined, "reviews"), "n2")
ratingsService ==
  getNodeParamsFromProps(PathParams(undefined, "bookinfo", "ratings", undefined, undefined), "n3")

Base ==
  [activeNamespaces |-> <<bookinfo>>,
   activeTour |-> undefined,
   duration |-> 60,
   edgeLabelMode |-> "noEdgeLabels",
   graphType |-> "versionedApp",
   isPageVisible |-> TRUE,
   lastRefreshAt |-> 1000,
   layout |-> [name |-> "dagre"],
   node |-> undefinedNode,
   replayActive |-> FALSE,
   replayQueryTime |-> 0,
   showLegend |-> FALSE,
   showSecurity |-> FALSE,
   showServiceNodes |-> FALSE,
   showUnusedNodes |-> FALSE,
   summaryData |-> null,
   mtlsEnabled |-> FALSE]

Replay == [Base EXCEPT !.replayActive = TRUE, !.replayQueryTime = 5000]

\* the values each input takes besides the one of Base
Values(f) ==
  CASE f = "activeNamespaces" -> {<<>>, <<bookinfo, default>>, <<default, bookinfo>>}
    [] f = "activeTour" -> {"GraphTour"}
    [] f = "duration" -> {120}
    [] f = "edgeLabelMode" -> {"requestsPerSecond", RESPONSE_TIME_95TH_PERCENTILE}
    [] f = "graphType" -> {"workload"}
    [] f = "isPageVisible" -> {FALSE}
    [] f = "lastRefreshAt" -> {2000}
    [] f = "layout" -> {[name |-> "cola"]}
    [] f = "node" -> {reviewsWorkload, reviewsWorkloadDefault, ratingsService}
    [] f = "replayQueryTime" -> {5000, 6000}
    [] f = "summaryData" -> {"summary"}
    [] OTHER -> {TRUE}

\* the snapshots the inputs move between: Base with one input changed, the
\* replay snapshot with a refresh tick, the legend shown during a tour, and
\* one with every fetch parameter changed at once
Snapshots ==
  {Base, Replay}
    \cup UNION {{[Base EXCEPT ![f] = v] : v \in Values(f)} : f \in DOMAIN Base}
    \cup {[Replay EXCEPT !.lastRefreshAt = 2000],
          [Base EXCEPT !.showLegend = TRUE, !.activeTour = "GraphTour"],
          [Base EXCEPT !.duration = 120, !.graphType = "workload", !.replayQueryTime = 6000,
                       !.showServiceNodes = TRUE, !.showSecurity = TRUE,
                       !.showUnusedNodes = TRUE, !.lastRefreshAt = 2000,
                       !.edgeLabelMode = RESPONSE_TIME_95TH_PERCENTILE]}

-----------------------------------------------------------------------------
(* RefreshController: the lifecycle of GraphPage *)

noCall == [fn |-> "none", applied |-> FALSE]

Pass(kind, prev, loads, observations, first) ==
  [kind |-> kind, prev |-> prev, loads |-> loads, observations |-> observations,
   wasError |-> isError,
   graphChanged |-> first.graphChanged, cleanError |-> first.cleanError,
   unsetFocusSelector |-> first.unsetFocusSelector, endTour |-> first.endTour]

noEffects ==
  [graphChanged |-> FALSE, load |-> FALSE, unsetFocusSelector |-> FALSE,
   cleanError |-> FALSE, endTour |-> FALSE]

\* the store as mapStateToProps last posted it to the component
StoreInSync == store.node = props.node /\ store.activeTour = props.activeTour

\* constructor: the state after construction. props is the first render's
\* snapshot; setNode reaches the store at once and the props only later.
Init ==
  /\ pc = "constructed"
  /\ params \in BootParams
  /\ props \in Snapshots
  /\ focusSelector \in {undefined, "node[app='reviews']"}
  /\ LET urlNode == getNodeParamsFromProps(params, "url")
     IN  /\ boot = [urlNode |-> urlNode, storedNode |-> props.node]
         /\ store = [node |-> IF isNodeChanged(urlNode, props.node) THEN urlNode ELSE props.node,
                     activeTour |-> props.activeTour]
  /\ listeners = [e \in DataSourceEvents |-> 0]
  /\ inflight = 0
  /\ isError = FALSE
  /\ lastRequest = noRequest
  /\ pass = Pass("constructor", props, 0, 0, noEffects)
  /\ call = noCall

componentDidMount ==
  /\ pc = "constructed"
  /\ LET load == store.node = undefinedNode
         req == loadGraphDataFromBackend(props)
     IN  /\ inflight' = IF load THEN inflight + fetchStarts(req) ELSE inflight
         /\ lastRequest' = IF load THEN req ELSE lastRequest
         /\ isError' = IF load /\ fetchStarts(req) = 1 THEN FALSE ELSE isError
         /\ pass' = Pass("mount", props, IF load THEN 1 ELSE 0, 0, noEffects)
  /\ listeners' = [e \in DataSourceEvents |-> listeners[e] + 1]
  /\ pc' = "mounted"
  /\ UNCHANGED <<params, props, store, boot, focusSelector, call>>

\* componentDidUpdate(prev) with this.props = curr, and the re-observation
\* that follows at once when the fetch it submits emits its first event to
\* handleGraphDataSourceUpdate (forceUpdate: the props stay as they are).
\* outstanding is the number of fetches in flight when the pass begins.
Observation(kind, prev, curr, outstanding, failed) ==
  \E first \in {componentDidUpdate(prev, curr, focusSelector)} :
  \E req \in {loadGraphDataFromBackend(curr)} :
  \E again \in {first.load /\ Registered(fetchEvent(req))} :
  \E second \in {componentDidUpdate(curr, curr, undefined)} :
  \E loads \in {(IF first.load THEN 1 ELSE 0) + (IF again /\ second.load THEN 1 ELSE 0)} :
      /\ outstanding + loads * fetchStarts(req) <= MaxInFlight
      /\ props' = curr
      /\ focusSelector' = undefined
      /\ inflight' = outstanding + loads * fetchStarts(req)
      /\ isError' = IF loads * fetchStarts(req) > 0 THEN FALSE ELSE failed
      /\ lastRequest' = IF loads > 0 THEN req ELSE lastRequest
      /\ store' = [node |-> curr.node,
                   activeTour |-> IF first.endTour THEN undefined ELSE curr.activeTour]
      /\ pass' = Pass(kind, prev, loads, IF again THEN 2 ELSE 1, first)

\* the first update: the store change of the constructor (or of endTour) is posted
PostStoreUpdate ==
  /\ pc = "mounted"
  /\ ~StoreInSync
  /\ Observation("update", props,
                 [props EXCEPT !.node = store.node, !.activeTour = store.activeTour],
                 inflight, isError)
  /\ UNCHANGED <<pc, params, boot, listeners, call>>

\* an input changes (navigation, store update, refresh tick, toggle) and the page re-renders
InputChange(s) ==
  /\ pc = "mounted"
  /\ StoreInSync
  /\ Observation("update", props, s, inflight, isError)
  /\ UNCHANGED <<pc, params, boot, listeners, call>>

\* the data source emits an event: handleGraphDataSourceUpdate, if registered.
\* failed is the isError the data source has set before it emits.
Emit(event, outstanding, failed) ==
  IF Registered(event)
  THEN Observation(event, props, props, outstanding, failed)
  ELSE /\ pass' = Pass(event, props, 0, 0, noEffects)
       /\ inflight' = outstanding
       /\ isError' = failed
       /\ UNCHANGED <<props, focusSelector, lastRequest, store>>

\* a fetch in flight completes
FetchSuccess ==
  /\ inflight > 0
  /\ pc = "mounted" => StoreInSync
  /\ Emit("fetchSuccess", inflight - 1, FALSE)
  /\ UNCHANGED <<pc, params, boot, listeners, call>>

\* a fetch in flight fails
FetchError ==
  /\ inflight > 0
  /\ pc = "mounted" => StoreInSync
  /\ Emit("fetchError", inflight - 1, TRUE)
  /\ UNCHANGED <<pc, params, boot, listeners, call>>

\* the retry action of the empty graph: loadGraphDataFromBackend, whose first
\* event brings a re-observation
handleEmptyGraphAction ==
  /\ pc = "mounted"
  /\ StoreInSync
  /\ \E req \in {loadGraphDataFromBackend(props)} :
     \E again \in {Registered(fetchEvent(req))} :
     \E second \in {componentDidUpdate(props, props, focusSelector)} :
     \E loads \in {1 + (IF again /\ second.load THEN 1 ELSE 0)} :
         /\ inflight + loads * fetchStarts(req) <= MaxInFlight
         /\ inflight' = inflight + loads * fetchStarts(req)
         /\ isError' = IF fetchStarts(req) = 1 THEN FALSE ELSE isError
         /\ lastRequest' = req
         /\ focusSelector' = IF again THEN undefined ELSE focusSelector
         /\ store' = [store EXCEPT !.activeTour =
                        IF again /\ second.endTour THEN undefined ELSE @]
         /\ pass' = Pass("retry", props, loads, IF again THEN 1 ELSE 0,
                         IF again THEN second ELSE noEffects)
  /\ UNCHANGED <<pc, params, props, boot, listeners, call>>

\* componentWillUnmount that leaves the fetchSuccess handler registered
componentWillUnmount_leak ==
  /\ pc = "mounted"
  /\ listeners' = [e \in DataSourceEvents |->
                     IF e # "fetchSuccess" /\ listeners[e] > 0 THEN listeners[e] - 1
                     ELSE listeners[e]]
  /\ pc' = "unmounted"
  /\ pass' = Pass("unmount", props, 0, 0, noEffects)
  /\ UNCHANGED <<params, props, store, boot, focusSelector, inflight, isError, lastRequest,
                 call>>

componentWillUnmount ==
  /\ pc = "mounted"
  /\ listeners' = [e \in DataSourceEvents |-> IF listeners[e] > 0 THEN listeners[e] - 1 ELSE 0]
  /\ pc' = "unmounted"
  /\ pass' = Pass("unmount", props, 0, 0, noEffects)
  /\ UNCHANGED <<params, props, store, boot, focusSelector, inflight, isError, lastRequest,
                 call>>

Next ==
  \/ componentDidMount
  \/ PostStoreUpdate
  \/ \E s \in Snapshots : InputChange(s)
  \/ FetchSuccess
  \/ FetchError
  \/ handleEmptyGraphAction
  \/ componentWillUnmount

Spec == Init /\ [][Next]_vars

-----------------------------------------------------------------------------
(* NodeSelector applied to bounded inputs *)

RawValues == {undefined, "", UNKNOWN, "undefined", "reviews"}
RawVersions == {undefined, "", "v1"}

RawParams ==
  {PathParams(a, n, s, v, w) : a \in RawValues, n \in RawValues, s \in RawValues,
                               v \in RawVersions, w \in RawValues}

\* node objects with the identity ref
NodeObjects(ref) ==
  [ref : {ref},
   app : {undefined, "reviews"},
   namespace : {bookinfo, default},
   nodeType : {NodeType_APP, NodeType_SERVICE, NodeType_WORKLOAD},
   service : {undefined, "ratings"},
   version : {"", "v1"},
   workload : {undefined, "reviews"}]
    \cup {undefinedNode}

\* pairs of node values: the same object twice, or two objects
NodePairs ==
  {<<a, a>> : a \in NodeObjects("o1")}
    \cup (NodeObjects("o1") \X NodeObjects("o2"))

Calls ==
  {[fn |-> "getNodeParamsFromProps", matchParams |-> p, applied |-> FALSE] : p \in RawParams}
    \cup {[fn |-> "isNodeChanged", prevNode |-> pr[1], node |-> pr[2], applied |-> FALSE] :
            pr \in NodePairs}
    \cup {[fn |-> "deriveTwice", matchParams |-> p, applied |-> FALSE] : p \in RawParams}

InitNode ==
  /\ call \in Calls
  /\ pc = "pure"
  /\ params = PathParams(undefined, undefined, undefined, undefined, undefined)
  /\ props = Base
  /\ store = [node |-> undefinedNode, activeTour |-> undefined]
  /\ boot = [urlNode |-> undefinedNode, storedNode |-> undefinedNode]
  /\ focusSelector = undefined
  /\ listeners = [e \in DataSourceEvents |-> 0]
  /\ inflight = 0
  /\ isError = FALSE
  /\ lastRequest = noRequest
  /\ pass = Pass("none", Base, 0, 0, noEffects)

Unused ==
  <<pc, params, props, store, boot, focusSelector, listeners, inflight, isError, lastRequest,
    pass>>

ApplyGetNodeParamsFromProps ==
  /\ call.fn = "getNodeParamsFromProps" /\ ~call.applied
  /\ call' = [fn |-> call.fn, matchParams |-> call.matchParams, applied |-> TRUE,
              result |-> getNodeParamsFromProps(call.matchParams, "o1")]
  /\ UNCHANGED Unused

ApplyIsNodeChanged ==
  /\ call.fn = "isNodeChanged" /\ ~call.applied
  /\ call' = [fn |-> call.fn, prevNode |-> call.prevNode, node |-> call.node, applied |-> TRUE,
              result |-> isNodeChanged(call.prevNode, call.node)]
  /\ UNCHANGED Unused

\* two derivations from the same raw input, compared
ApplyDeriveTwice ==
  /\ call.fn = "deriveTwice" /\ ~call.applied
  /\ \E first \in {getNodeParamsFromProps(call.matchParams, "o1")} :
     \E second \in {getNodeParamsFromProps(call.matchParams, "o2")} :
       call' = [fn |-> call.fn, prevNode |-> first, node |-> second, applied |-> TRUE,
                result |-> isNodeChanged(first, second)]
  /\ UNCHANGED Unused

NextNode == ApplyGetNodeParamsFromProps \/ ApplyIsNodeChanged \/ ApplyDeriveTwice

SpecNode == InitNode /\ [][NextNode]_vars

-----------------------------------------------------------------------------
(* Properties of the refresh controller (Spec) *)

\* the inputs that differ between two snapshots
Differs(prev, curr) == {f \in DOMAIN curr : prev[f] # curr[f]}

NameSet(namespaces) == {namespaces[i].name : i \in DOMAIN namespaces}

UpdatePass == pass.kind = "update" /\ pass.observations >= 1

\* C1: at most one fetch submitted by the controller is in flight at any time.
C1_AtMostOneFetchInFlight == inflight <= 1

\* C2: when the URL node and the stored node differ at construction, the
\* store holds the URL node before any fetch, no fetch is submitted at mount,
\* and the first fetch submitted carries the URL node.
C2_BootstrapFetchesUrlNode ==
  [][(isNodeChanged(boot.urlNode, boot.storedNode)
        /\ lastRequest = noRequest /\ lastRequest' # noRequest)
       => (pass'.kind # "mount" /\ store.node = boot.urlNode
             /\ lastRequest'.node = boot.urlNode)]_vars

\* C3: an observation pass with identical previous and current snapshots
\* submits no fetch; the re-observation a data source event brings never
\* submits one, so a fetch brings no further fetch through its own events.
C3_IdenticalSnapshotsNoFetch ==
  /\ (pass.kind \in DataSourceEvents \cup {"update"} /\ pass.observations >= 1
        /\ pass.prev = props) => pass.loads = 0
  /\ (pass.kind = "update" /\ pass.observations = 2) => pass.loads = 1
  /\ pass.kind = "retry" => pass.loads = 1

C3_Witness ==
  /\ pass.kind = "fetchSuccess" /\ pass.observations = 1 /\ pass.prev = props
  /\ pass.loads = 0 /\ props.replayQueryTime = 0

C5_RefreshTickOutsideReplay ==
  (UpdatePass /\ Differs(pass.prev, props) = {"lastRefreshAt"})
    => (pass.loads = 1 <=> props.replayQueryTime = 0)

C5_Witness ==
  /\ UpdatePass /\ Differs(pass.prev, props) = {"lastRefreshAt"}
  /\ props.replayQueryTime = 5000 /\ pass.loads = 0

\* C6: two snapshots that differ only in edgeLabelMode bring a fetch exactly
\* when the new mode is RESPONSE_TIME_95TH_PERCENTILE.
C6_EdgeLabelModeAsymmetric ==
  (UpdatePass /\ Differs(pass.prev, props) = {"edgeLabelMode"})
    => (pass.loads = 1 <=> props.edgeLabelMode = RESPONSE_TIME_95TH_PERCENTILE)

C6_Witness ==
  /\ UpdatePass /\ Differs(pass.prev, props) = {"edgeLabelMode"}
  /\ pass.prev.edgeLabelMode = RESPONSE_TIME_95TH_PERCENTILE
  /\ pass.loads = 0

Unconditional ==
  {"duration", "graphType", "replayQueryTime", "showServiceNodes", "showSecurity",
   "showUnusedNodes"}

\* C7: an update in which at least one of duration, graphType,
\* replayQueryTime, showServiceNodes, showSecurity, showUnusedNodes differs
\* submits exactly one fetch, however many inputs changed together.
C7_UnconditionalTriggersOnce ==
  (UpdatePass /\ Differs(pass.prev, props) \cap Unconditional # {}) => pass.loads = 1

C7_Witness ==
  /\ UpdatePass
  /\ Unconditional \subseteq Differs(pass.prev, props)
  /\ pass.loads = 1

-----------------------------------------------------------------------------
(* Properties of the node selector (SpecNode) *)

IdentityFields == {"app", "service", "version", "nodeType", "workload"}

Present(s) == s \notin {undefined, "", UNKNOWN, "undefined"}

\* C8: isNodeChanged is false for the same reference and for two absent
\* nodes, true when exactly one is absent, and for two nodes true exactly
\* when app, service, version, nodeType or workload differs; two derivations
\* from the same raw input compare as unchanged.
C8_NodeChanged ==
  (call.applied /\ call.fn \in {"isNodeChanged", "deriveTwice"})
    => /\ call.result =
            IF call.prevNode.ref = call.node.ref THEN FALSE
            ELSE IF call.prevNode = undefinedNode \/ call.node = undefinedNode THEN TRUE
            ELSE \E f \in IdentityFields : call.prevNode[f] # call.node[f]
       /\ call.fn = "deriveTwice" => ~call.result

C8_Witness ==
  /\ call.applied /\ call.fn = "deriveTwice"
  /\ call.node # undefinedNode /\ call.prevNode.ref # call.node.ref
  /\ call.result = FALSE

\* C9: getNodeParamsFromProps returns no node exactly when none of app,
\* namespace, service, workload is present; the version plays no part.
C9_AbsentIffNoIdentityField ==
  (call.applied /\ call.fn = "getNodeParamsFromProps")
    => (call.result = undefinedNode
          <=> \A f \in {"app", "namespace", "service", "workload"} :
                ~Present(call.matchParams[f]))

C9_Witness ==
  /\ call.applied /\ call.fn = "getNodeParamsFromProps"
  /\ call.matchParams.version = "v1" /\ call.matchParams.workload = "undefined"
  /\ call.matchParams.app = UNKNOWN /\ call.matchParams.service = ""
  /\ call.result = undefinedNode

\* C10: a derived node is APP when app is present, WORKLOAD when only
\* workload of the two is present, SERVICE otherwise; APP and WORKLOAD carry
\* the raw version, SERVICE has the empty version.
C10_NodeTypeAndVersion ==
  (call.applied /\ call.fn = "getNodeParamsFromProps" /\ call.result # undefinedNode)
    => LET p == call.matchParams
       IN  /\ call.result.nodeType =
                IF Present(p.app) THEN NodeType_APP
                ELSE IF Present(p.workload) THEN NodeType_WORKLOAD
                ELSE NodeType_SERVICE
           /\ call.result.version =
                IF call.result.nodeType = NodeType_SERVICE THEN "" ELSE p.version

C10_Witness ==
  /\ call.applied /\ call.fn = "getNodeParamsFromProps"
  /\ call.matchParams.version = "v1" /\ Present(call.matchParams.service)
  /\ call.result # undefinedNode
  /\ call.result.nodeType = NodeType_SERVICE /\ call.result.version = ""

\* the name field that goes with a node type
NameField(nodeType) ==
  CASE nodeType = NodeType_APP -> "app"
    [] nodeType = NodeType_WORKLOAD -> "workload"
    [] nodeType = NodeType_SERVICE -> "service"

\* C11: every node getNodeParamsFromProps returns carries a present namespace
\* name and a present name for its node type (app, workload or service).
C11_FullyPopulated ==
  (call.applied /\ call.fn = "getNodeParamsFromProps" /\ call.result # undefinedNode)
    => /\ Present(call.result.namespace.name)
       /\ Present(call.result[NameField(call.result.nodeType)])

-----------------------------------------------------------------------------
(* Properties of the requests and of the lifecycle (Spec) *)

\* C12: a submitted request is scoped by the snapshot current at submission:
\* the one namespace of the focused node together with the node, or the active
\* namespaces and no node. Focusing the workload reviews of bookinfo from the
\* namespaces [bookinfo] brings a fetch scoped to bookinfo for that workload.
C12_RequestScope ==
  /\ pass.loads > 0
       => IF props.node # undefinedNode
          THEN /\ lastRequest.namespaces = <<[name |-> props.node.namespace.name]>>
               /\ lastRequest.node = props.node
          ELSE /\ lastRequest.namespaces = props.activeNamespaces
               /\ lastRequest.node = undefinedNode
  /\ (UpdatePass /\ pass.prev = Base /\ props = [Base EXCEPT !.node = reviewsWorkload])
       => /\ pass.loads = 1
          /\ lastRequest.namespaces = <<bookinfo>>
          /\ lastRequest.node.nodeType = NodeType_WORKLOAD
          /\ lastRequest.node.workload = "reviews"

C12_Witness ==
  /\ UpdatePass /\ pass.prev = Base /\ props = [Base EXCEPT !.node = reviewsWorkload]
  /\ pass.loads = 1 /\ lastRequest.namespaces = <<bookinfo>>

\* C13: a submitted request carries the current replayQueryTime as its query
\* time when that is not 0 and no query time when it is 0, whether submitted
\* at mount, by an update or by the retry action.
C13_RequestQueryTime ==
  pass.loads > 0
    => lastRequest.queryTime =
         IF props.replayQueryTime = 0 THEN undefinedTime ELSE <<props.replayQueryTime>>

C13_Witness ==
  /\ UpdatePass /\ pass.prev.replayQueryTime = 5000 /\ props.replayQueryTime = 0
  /\ pass.loads = 1 /\ lastRequest.queryTime = undefinedTime

\* C14: after a failed fetch an update submits a fetch exactly when its
\* snapshots call for one, and the retry action submits one in any case.
C14_FailureNotFatal ==
  /\ (pass.wasError /\ UpdatePass)
       => pass.loads = IF shouldRefetch(pass.prev, props) THEN 1 ELSE 0
  /\ (pass.wasError /\ pass.kind = "retry")
       => pass.loads = 1 /\ lastRequest = loadGraphDataFromBackend(props)

C14_Witness ==
  /\ pass.wasError /\ UpdatePass /\ pass.prev.duration # props.duration
  /\ pass.loads = 1 /\ ~isError

\* C15: every event the data source emits for a submitted fetch brings one
\* re-observation, the event emitted during the submission at mount included.
C15_EveryEventObserved ==
  /\ pass.kind \in {"mount", "retry"} => pass.observations = pass.loads
  /\ pass.kind = "update" => pass.observations = 1 + pass.loads
  /\ (pass.kind \in DataSourceEvents /\ pc = "mounted") => pass.observations = 1 + pass.loads

\* C16: mount registers one handler per data source event, unmount removes
\* each, and an event emitted after unmount brings no re-observation.
C16_SubscriptionLifecycle ==
  /\ pc = "constructed" => \A e \in DataSourceEvents : listeners[e] = 0
  /\ pc = "mounted" => \A e \in DataSourceEvents : listeners[e] = 1
  /\ pc = "unmounted"
       => /\ \A e \in DataSourceEvents : listeners[e] = 0
          /\ pass.kind \in DataSourceEvents => pass.observations = 0 /\ pass.loads = 0

C16_Witness ==
  /\ pc = "unmounted" /\ pass.kind = "fetchSuccess"
  /\ pass.observations = 0 /\ inflight = 0

\* C17: once the page is mounted and the store is posted to it, the initial
\* fetch has been submitted, at mount or by the first update.
C17_InitialLoadHappens ==
  (pc = "mounted" /\ StoreInSync) => lastRequest # noRequest

\* a node without its object identity
NodeValue(node) == IF node = undefinedNode THEN node ELSE [node EXCEPT !.ref = "value"]

\* C18: after an observation pass, once a fetch has been submitted, the node
\* and the namespaces of the last request are those of the current snapshot.
C18_FocusScopeCurrent ==
  (pass.observations >= 1 /\ lastRequest # noRequest)
    => /\ NodeValue(lastRequest.node) = NodeValue(props.node)
       /\ NameSet(lastRequest.namespaces) =
            IF props.node # undefinedNode THEN {props.node.namespace.name}
            ELSE NameSet(props.activeNamespaces)

\* C19: after an observation pass, once a fetch has been submitted, the last
\* request has the duration, graph type, toolbar flags and query time of the
\* current snapshot, and the percentile label mode whenever that is current.
C19_QueryParamsCurrent ==
  (pass.observations >= 1 /\ lastRequest # noRequest)
    => /\ lastRequest.duration = props.duration
       /\ lastRequest.graphType = props.graphType
       /\ lastRequest.injectServiceNodes = props.showServiceNodes
       /\ lastRequest.showSecurity = props.showSecurity
       /\ lastRequest.showUnusedNodes = props.showUnusedNodes
       /\ lastRequest.queryTime =
            IF props.replayQueryTime = 0 THEN undefinedTime ELSE <<props.replayQueryTime>>
       /\ props.edgeLabelMode = RESPONSE_TIME_95TH_PERCENTILE
            => lastRequest.edgeLabelMode = RESPONSE_TIME_95TH_PERCENTILE

C19_Witness ==
  /\ UpdatePass /\ inflight = 2
  /\ pass.prev.duration # props.duration
  /\ lastRequest # noRequest /\ lastRequest.duration = props.duration

NonTriggers ==
  {"layout", "showLegend", "activeTour", "summaryData", "isPageVisible", "mtlsEnabled",
   "replayActive"}

\* C20: an update whose snapshots differ only in layout, showLegend,
\* activeTour, summaryData, isPageVisible, mtlsEnabled or replayActive
\* submits no fetch.
C20_NoRedundantRefetch ==
  (UpdatePass /\ Differs(pass.prev, props) # {} /\ Differs(pass.prev, props) \subseteq NonTriggers)
    => pass.loads = 0 /\ pass.observations = 1

C20_Witness ==
  /\ UpdatePass /\ Differs(pass.prev, props) = {"layout", "isPageVisible"}
  /\ pass.loads = 0 /\ lastRequest # noRequest

-----------------------------------------------------------------------------
(* Properties of the other effects of an observation pass (Spec) *)

\* C21: a focus selector present at construction stays until the first
\* observation pass after mount, which clears it and calls unsetFocusSelector;
\* once the selector is absent it stays absent and unsetFocusSelector is not
\* called, so it is called once if a selector was present and never otherwise.
C21_FocusConsumedOnce ==
  [][/\ (Truthy(focusSelector) /\ pass'.observations = 0)
          => focusSelector' = focusSelector /\ ~pass'.unsetFocusSelector
     /\ (Truthy(focusSelector) /\ pass'.observations >= 1)
          => focusSelector' = undefined /\ pass'.unsetFocusSelector
     /\ ~Truthy(focusSelector)
          => focusSelector' = undefined /\ ~pass'.unsetFocusSelector]_vars

C21_Witness ==
  /\ pc = "mounted" /\ pass.observations >= 1
  /\ pass.unsetFocusSelector /\ focusSelector = undefined

\* C22: an update pass calls cleanError exactly when the layout name differs
\* between its snapshots or the set of active namespace names changed,
\* whether or not the pass submits a fetch; a re-observation brought by a
\* data source event or by the retry, and mount and unmount, never call it.
C22_CleanErrorIffLayoutOrNamespaces ==
  /\ UpdatePass
       => (pass.cleanError
             <=> \/ pass.prev.layout.name # props.layout.name
                 \/ NameSet(pass.prev.activeNamespaces) # NameSet(props.activeNamespaces))
  /\ pass.kind # "update" => ~pass.cleanError

C22_Witness ==
  /\ UpdatePass /\ pass.prev.layout.name # props.layout.name
  /\ pass.cleanError /\ pass.loads = 0

====
